---- MODULE Spec2Model ----
(***************************************************************************)
(* Metered-access ledger, payment reconciler and optimization-run state    *)
(* machine of HR-Breaker.                                                  *)
(*                                                                         *)
(*   - the profiles row and the storage functions consume_request and      *)
(*     add_addon_credits               (supabase/migrations/002, 005)      *)
(*   - check_access / consume_request of the access-control service,       *)
(*     the Stripe webhook handler and start_optimization                   *)
(*                                     (docs/plans, paywall design)     *)
(*   - the optimization_runs row       (supabase/migrations/001)           *)
(*                                                                         *)
(* One profile (one account) is modelled; accounts share no state.         *)
(***************************************************************************)
EXTENDS Integers, Sequences, FiniteSets, TLC

(***************************************************************************)
(* Configuration values, scaled down.  The settings are read from the      *)
(* environment (TRIAL_REQUEST_LIMIT, SUBSCRIPTION_REQUEST_LIMIT,           *)
(* ADDON_REQUEST_COUNT; defaults 3, 50, 10) and the storage function takes *)
(* the limit as a parameter, so the code is parametric in them.            *)
(***************************************************************************)
TrialLimit == 2
SubscriptionLimit == 2
AddonPack == 2

\* Caps that keep the counters and the clock finite.
MaxTrialUsage == 3
MaxAddon == 4
MaxTime == 2
MaxIterations == 2
MaxDups == 1

\* SQL NULL / Python None.
None == -1

\* No event is marked for another delivery.
NoEvent == [kind |-> "none", pe |-> None, st |-> "na"]

Debiters == {1, 2}
Hooks == {1, 2}
Starters == {1, 2}

Tiers == {"trial", "active", "cancelled", "expired"}

VARIABLES
    profile,      \* the profiles row of the account
    unlimited,    \* user_email.lower() in settings.unlimited_users
    now,          \* datetime.now(timezone.utc)
    profile0,     \* the row at the start of the behaviour (history)
    dpc,          \* position of each debit call
    dres,         \* result of each debit call: "none", "true", "false"
    wread,        \* addon_credits read by each webhook request that is in
                  \* its add-on branch, or None
    dup,          \* an applied payment event the processor may deliver again
    dupBudget,    \* duplicate deliveries the processor may still make
    deniedSince,  \* reasons check_access denied with since the last
                  \* reconciler write (history)
    spc,          \* position of each start_optimization request
    snap,         \* the profile each start_optimization request has read
    status,       \* optimization_runs.status of the run of each request
    iterations,   \* optimization_runs.iterations
    hist,         \* statuses persisted for the run, in order (history)
    consumed,     \* what consume_request did for the run: "none" (not
                  \* called), "noop" (no update), "written" (history)
    error,        \* optimization_runs.error: "none" (NULL) or the reason
    result_html,  \* optimization_runs.result_html: "none" (NULL) or "html"
    feedback,     \* optimization_runs.feedback: the iteration records
    access,       \* the AccessResult behind the latest response of
                  \* GET /subscription
    resp,         \* the latest response of the webhook to the processor
    hook,         \* useOptimizationStatus of the run of request 1: "idle"
                  \* (runId null), "mounted" or "unmounted"
    hookStatus,   \* its status state: "null" or the status of the data
    hookError,    \* its error state is non-null
    intervalRef,  \* intervalRef.current is non-null
    requests,     \* each getOptimizationStatus call: "none", "sent", the
                  \* status carried by its response, or "fail"
    route,        \* the page the browser is on: "none", "optimize?success",
                  \* "optimize" or "blocked"
    mounted,      \* OptimizeContent is mounted
    postCheckout, \* its postCheckout state
    successMessage, \* its successMessage state is non-null
    checkoutTs,   \* sessionStorage post_checkout_ts, or None
    graceTimer,   \* the time the pending grace timeout is due, or None
    clock,        \* Date.now() in the browser
    redirects     \* redirects made between the two pages (history)

vars == <<profile, unlimited, now, profile0, dpc, dres, wread, dup, dupBudget,
          deniedSince, spc, snap, status, iterations, hist, consumed,
          error, result_html, feedback, access, resp,
          hook, hookStatus, hookError, intervalRef, requests,
          route, mounted, postCheckout, successMessage, checkoutTs,
          graceTimer, clock, redirects>>

ledgerVars == <<profile, unlimited, now, profile0, dpc, dres, wread, dup,
                dupBudget, deniedSince>>
outVars == <<result_html, feedback>>
runVars == <<spc, snap, status, iterations, hist, consumed, error, outVars>>
pollVars == <<hook, hookStatus, hookError, intervalRef, requests>>
pageVars == <<route, mounted, postCheckout, successMessage, checkoutTs,
              graceTimer, clock, redirects>>
uiVars == <<pollVars, pageVars>>
clientVars == <<access, resp, uiVars>>

(***************************************************************************)
(* The profiles row.                                                       *)
(***************************************************************************)
NewProfile ==
    [request_count        |-> 0,
     subscription_status  |-> "trial",
     subscription_id      |-> None,
     current_period_end   |-> None,
     period_request_count |-> 0,
     addon_credits        |-> 0]

Profiles ==
    [request_count        : 0..MaxTrialUsage,
     subscription_status  : Tiers,
     subscription_id      : {None, 1},
     current_period_end   : {None} \cup (1..MaxTime),
     period_request_count : 0..SubscriptionLimit,
     addon_credits        : 0..MaxAddon]

\* Rows the account can be in: the tier never returns to trial, period
\* usage and add-on credits are only debited on the active tier, and every
\* write of the active tier also writes the period end.
Plausible(p) ==
    /\ p.subscription_status = "trial" =>
           /\ p.current_period_end = None
           /\ p.period_request_count = 0
           /\ p.addon_credits = 0
    /\ p.subscription_status = "active" => p.current_period_end # None

(***************************************************************************)
(* check_access                                                            *)
(***************************************************************************)
AccessResult(allowed, remaining, unl, is_trial, reason, sub, addon, renewal) ==
    [allowed |-> allowed, remaining |-> remaining, unlimited |-> unl,
     is_trial |-> is_trial, reason |-> reason,
     can_subscribe |-> sub, can_buy_addon |-> addon,
     renewal_date |-> renewal]

\* Rule 4: trial exhausted, no active subscription.
TrialExhaustedBare ==
    AccessResult(FALSE, 0, FALSE, FALSE, "trial_exhausted", FALSE, FALSE, None)
TrialExhausted ==
    AccessResult(FALSE, 0, FALSE, FALSE, "trial_exhausted", TRUE, FALSE, None)

\* The trial rule tried before the subscriber rule.
check_accessTrialFirst(unl, p, t) ==
    IF unl
    THEN AccessResult(TRUE, None, TRUE, FALSE, "none", FALSE, FALSE, None)
    ELSE IF p.request_count < TrialLimit
    THEN AccessResult(TRUE, TrialLimit - p.request_count, FALSE, TRUE,
                      "none", FALSE, FALSE, None)
    ELSE IF /\ p.subscription_status = "active"
            /\ p.current_period_end # None
            /\ t < p.current_period_end
    THEN LET remaining_period == SubscriptionLimit - p.period_request_count
             remaining_total  == remaining_period + p.addon_credits
         IN  IF remaining_total > 0
             THEN AccessResult(TRUE, remaining_total, FALSE, FALSE, "none",
                               FALSE, FALSE, p.current_period_end)
             ELSE AccessResult(FALSE, 0, FALSE, FALSE, "quota_exhausted",
                               FALSE, TRUE, p.current_period_end)
    ELSE TrialExhausted
check_access(unl, p, t) ==
    IF unl
    THEN AccessResult(TRUE, None, TRUE, FALSE, "none", FALSE, FALSE, None)
    ELSE IF /\ p.subscription_status = "active"
            /\ p.current_period_end # None
            /\ t < p.current_period_end
    THEN LET remaining_period == SubscriptionLimit - p.period_request_count
             remaining_total  == remaining_period + p.addon_credits
         IN  IF remaining_total > 0
             THEN AccessResult(TRUE, remaining_total, FALSE, FALSE, "none",
                               FALSE, FALSE, p.current_period_end)
             ELSE AccessResult(FALSE, 0, FALSE, FALSE, "quota_exhausted",
                               FALSE, TRUE, p.current_period_end)
    ELSE IF p.request_count < TrialLimit
    THEN AccessResult(TRUE, TrialLimit - p.request_count, FALSE, TRUE,
                      "none", FALSE, FALSE, None)
    ELSE TrialExhausted

\* The denial reasons seen so far, extended by the one of row p at time t.
Observe(seen, p, t) ==
    LET a == check_access(unlimited, p, t)
    IN  IF a.allowed THEN seen ELSE seen \cup {a.reason}

(***************************************************************************)
(* consume_request, the storage function.  Each UPDATE is one atomic       *)
(* conditional write; the function is entered with                         *)
(* p_is_subscriber = (subscription_status = 'active') and                  *)
(* p_subscription_limit = SubscriptionLimit.                               *)
(***************************************************************************)
PeriodUpdateMatchesOffByOne(p, limit) == p.period_request_count <= limit
PeriodUpdateMatches(p, limit) == p.period_request_count < limit

AddonUpdateMatchesNoGuard(p) == p.addon_credits >= 0
AddonUpdateMatches(p) == p.addon_credits > 0

\* The UPDATE of the trial branch has no condition on the counters.
TrialUpdateMatchesBelowLimit(p) == p.request_count < TrialLimit
TrialUpdateMatches(p) == TRUE

IsSubscriber(p) == p.subscription_status = "active"

\* Entry of a debit call: the unlimited short-cut, else the first UPDATE of
\* the branch chosen by p_is_subscriber.
ConsumeFirst(d) ==
    /\ dpc[d] = "idle"
    /\ IF unlimited
       THEN /\ dpc' = [dpc EXCEPT ![d] = "done"]
            /\ dres' = [dres EXCEPT ![d] = "true"]
            /\ UNCHANGED profile
       ELSE IF IsSubscriber(profile)
       THEN IF PeriodUpdateMatches(profile, SubscriptionLimit)
            THEN /\ profile' = [profile EXCEPT !.period_request_count = @ + 1]
                 /\ dpc' = [dpc EXCEPT ![d] = "done"]
                 /\ dres' = [dres EXCEPT ![d] = "true"]
            ELSE /\ dpc' = [dpc EXCEPT ![d] = "addon"]
                 /\ UNCHANGED <<profile, dres>>
       ELSE /\ profile.request_count < MaxTrialUsage
            /\ IF TrialUpdateMatches(profile)
               THEN /\ profile' = [profile EXCEPT !.request_count = @ + 1]
                    /\ dres' = [dres EXCEPT ![d] = "true"]
               ELSE /\ dres' = [dres EXCEPT ![d] = "false"]
                    /\ UNCHANGED profile
            /\ dpc' = [dpc EXCEPT ![d] = "done"]
    /\ deniedSince' = Observe(deniedSince, profile', now)
    /\ UNCHANGED <<unlimited, now, profile0, wread, dup, dupBudget>>
    /\ UNCHANGED <<runVars, clientVars>>

\* The second UPDATE of the subscriber branch.
ConsumeAddon(d) ==
    /\ dpc[d] = "addon"
    /\ IF AddonUpdateMatches(profile)
       THEN /\ profile' = [profile EXCEPT !.addon_credits = @ - 1]
            /\ dres' = [dres EXCEPT ![d] = "true"]
       ELSE /\ dres' = [dres EXCEPT ![d] = "false"]
            /\ UNCHANGED profile
    /\ dpc' = [dpc EXCEPT ![d] = "done"]
    /\ deniedSince' = Observe(deniedSince, profile', now)
    /\ UNCHANGED <<unlimited, now, profile0, wread, dup, dupBudget>>
    /\ UNCHANGED <<runVars, clientVars>>

(***************************************************************************)
(* Two concurrent debit calls on one account, nothing else running.        *)
(***************************************************************************)
\* No response of GET /subscription has been received.
NoAccess ==
    AccessResult(FALSE, None, FALSE, FALSE, "unset", FALSE, FALSE, None)

\* Responses of the webhook: the HTTP status code and the status field of
\* the body.
Response(code, st) == [code |-> code, status |-> st]
NoResponse == Response(0, "none")

\* The getOptimizationStatus calls that may be in flight at once.
Requests == {1, 2}

\* No results page and no optimize or blocked page is open.
PagesIdle ==
    /\ hook = "idle"
    /\ hookStatus = "null"
    /\ hookError = FALSE
    /\ intervalRef = FALSE
    /\ requests = [q \in Requests |-> "none"]
    /\ route = "none"
    /\ mounted = FALSE
    /\ postCheckout = FALSE
    /\ successMessage = FALSE
    /\ checkoutTs = None
    /\ graceTimer = None
    /\ clock = 0
    /\ redirects = 0

ClientsIdle ==
    /\ access = NoAccess
    /\ resp = NoResponse
    /\ PagesIdle

RunsIdle ==
    /\ ClientsIdle
    /\ spc = [s \in Starters |-> "idle"]
    /\ snap = [s \in Starters |-> NewProfile]
    /\ status = [s \in Starters |-> "none"]
    /\ iterations = [s \in Starters |-> 0]
    /\ hist = [s \in Starters |-> <<>>]
    /\ consumed = [s \in Starters |-> "none"]
    /\ error = [s \in Starters |-> "none"]
    /\ result_html = [s \in Starters |-> "none"]
    /\ feedback = [s \in Starters |-> <<>>]

\* No webhook request is between its read and its write.
NoReads == [h \in Hooks |-> None]

DebitsIdle ==
    /\ dpc = [d \in Debiters |-> "idle"]
    /\ dres = [d \in Debiters |-> "none"]

InitRace ==
    /\ profile \in Profiles
    /\ Plausible(profile)
    /\ profile.subscription_id = None
    /\ unlimited \in BOOLEAN
    /\ now \in {0, MaxTime}
    /\ profile0 = profile
    /\ DebitsIdle
    /\ wread = NoReads
    /\ dup = NoEvent
    /\ dupBudget = 0
    /\ deniedSince = Observe({}, profile, now)
    /\ RunsIdle

NextRace == \E d \in Debiters : ConsumeFirst(d) \/ ConsumeAddon(d)

SpecRace == InitRace /\ [][NextRace]_vars

(***************************************************************************)
(* Race safety of the debit.                                               *)
(***************************************************************************)
BothDone == \A d \in Debiters : dpc[d] = "done"

OneTrueOneFalse ==
    \E d, e \in Debiters : d # e /\ dres[d] = "true" /\ dres[e] = "false"

\* Quota units taken from the row p, over its three counters.
Units(p) == p.request_count + p.period_request_count - p.addon_credits

OneUnitConsumed == Units(profile) = Units(profile0) + 1

\* The combined period and add-on quota of a subscriber row.
SubscriberQuota(p) == (SubscriptionLimit - p.period_request_count) + p.addon_credits

\* C1 as stated: on an account whose admission check reports exactly 1
\* remaining unit, whichever quota source holds it, two concurrent debit
\* calls return one true and one false and consume exactly one unit.
C1_RaceAnySource ==
    (/\ ~unlimited
     /\ check_access(unlimited, profile0, now).allowed
     /\ check_access(unlimited, profile0, now).remaining = 1
     /\ BothDone)
    => (OneTrueOneFalse /\ OneUnitConsumed)

\* C1 amended: on an active-tier account whose period quota and add-on
\* credits together hold exactly 1 unit, two concurrent debit calls return
\* one true and one false in every interleaving, and exactly one unit has
\* been consumed afterwards.
C1_RaceSubscriber ==
    (/\ ~unlimited
     /\ IsSubscriber(profile0)
     /\ SubscriberQuota(profile0) = 1
     /\ BothDone)
    => (OneTrueOneFalse /\ OneUnitConsumed)

\* The last unit was an add-on credit: both calls missed the period UPDATE,
\* one of them won the add-on UPDATE.
C1_Witness ==
    /\ ~unlimited
    /\ IsSubscriber(profile0)
    /\ SubscriberQuota(profile0) = 1
    /\ profile0.addon_credits = 1
    /\ BothDone
    /\ dres[1] = "false"
    /\ dres[2] = "true"
    /\ profile.addon_credits = 0

(***************************************************************************)
(* The Stripe webhook handler.  An event carries its type, the             *)
(* current_period_end of its subscription and, for                         *)
(* customer.subscription.updated, the Stripe subscription status.          *)
(***************************************************************************)
StripeStatuses == {"active", "trialing", "canceled", "past_due"}

Events ==
    [kind : {"sub_checkout", "invoice_paid"}, pe : 1..MaxTime, st : {"na"}]
    \cup [kind : {"addon_checkout", "sub_deleted"}, pe : {None}, st : {"na"}]
    \cup [kind : {"sub_updated"}, pe : 1..MaxTime, st : StripeStatuses]

\* customer.subscription.updated: Stripe status to subscription_status.
DbStatus(st) ==
    IF st \in {"active", "trialing"} THEN "active"
    ELSE IF st = "canceled" THEN "cancelled"
    ELSE "expired"

\* The row after supabase.update_profile for an event other than the add-on
\* checkout.
WebhookUpdateStatusOnly(p, e) ==
    IF e.kind = "sub_checkout"
    THEN [p EXCEPT !.subscription_status = "active",
                   !.subscription_id = 1,
                   !.current_period_end = e.pe,
                   !.period_request_count = 0]
    ELSE IF e.kind = "invoice_paid"
    THEN [p EXCEPT !.subscription_status = "active",
                   !.current_period_end = e.pe,
                   !.period_request_count = 0]
    ELSE IF e.kind = "sub_updated"
    THEN [p EXCEPT !.subscription_status = DbStatus(e.st)]
    ELSE [p EXCEPT !.subscription_status = "expired"]
WebhookUpdate(p, e) ==
    IF e.kind = "sub_checkout"
    THEN [p EXCEPT !.subscription_status = "active",
                   !.subscription_id = 1,
                   !.current_period_end = e.pe,
                   !.period_request_count = 0]
    ELSE IF e.kind = "invoice_paid"
    THEN [p EXCEPT !.subscription_status = "active",
                   !.current_period_end = e.pe,
                   !.period_request_count = 0]
    ELSE IF e.kind = "sub_updated"
    THEN [p EXCEPT !.subscription_status = DbStatus(e.st),
                   !.current_period_end = e.pe]
    ELSE [p EXCEPT !.subscription_status = "expired"]

\* Which event the processor may deliver again after this delivery; a
\* duplicate delivery uses up one of the processor's duplicates.
Track(e, again) ==
    /\ again => (dup = e /\ dupBudget > 0)
    /\ dupBudget' = IF again THEN dupBudget - 1 ELSE dupBudget
    /\ IF dupBudget' = 0
       THEN dup' = NoEvent
       ELSE \E keep \in BOOLEAN : dup' = IF keep THEN dup ELSE e

\* Delivery of an event whose handling is one update_profile call.
Deliver(e, again) ==
    /\ e.kind # "addon_checkout"
    /\ Track(e, again)
    /\ profile' = WebhookUpdate(profile, e)
    /\ resp' = Response(200, "ok")
    /\ deniedSince' = Observe({}, profile', now)
    /\ UNCHANGED <<unlimited, now, profile0, dpc, dres, wread>>
    /\ UNCHANGED <<runVars, access, uiVars>>

AddonEvent == [kind |-> "addon_checkout", pe |-> None, st |-> "na"]

\* Add-on checkout, first half: profile = supabase.get_profile(user_id).
AddonReadBy(h) ==
    /\ wread[h] = None
    /\ wread' = [wread EXCEPT ![h] = profile.addon_credits]
    /\ UNCHANGED <<profile, unlimited, now, profile0, dpc, dres, dup,
                   dupBudget, deniedSince>>
    /\ UNCHANGED <<runVars, clientVars>>

\* Add-on checkout, second half: update_profile with the credits read plus
\* the pack.
AddonWriteBy(h, again) ==
    /\ wread[h] # None
    /\ wread[h] + AddonPack <= MaxAddon
    /\ Track(AddonEvent, again)
    /\ profile' = [profile EXCEPT !.addon_credits = wread[h] + AddonPack]
    /\ wread' = [wread EXCEPT ![h] = None]
    /\ resp' = Response(200, "ok")
    /\ deniedSince' = Observe({}, profile', now)
    /\ UNCHANGED <<unlimited, now, profile0, dpc, dres>>
    /\ UNCHANGED <<runVars, access, uiVars>>

\* One add-on checkout request at a time.
AddonRead == AddonReadBy(1)

AddonWrite(again) == AddonWriteBy(1, again)

\* The caller of a debit takes its result; the next debit call may start.
DebitReturn(d) ==
    /\ dpc[d] = "done"
    /\ dpc' = [dpc EXCEPT ![d] = "idle"]
    /\ dres' = [dres EXCEPT ![d] = "none"]
    /\ UNCHANGED <<profile, unlimited, now, profile0, wread, dup, dupBudget,
                   deniedSince>>
    /\ UNCHANGED <<runVars, clientVars>>

\* Time passes.
Tick ==
    /\ now < MaxTime
    /\ now' = now + 1
    /\ deniedSince' = Observe(deniedSince, profile, now')
    /\ UNCHANGED <<profile, unlimited, profile0, dpc, dres, wread, dup, dupBudget>>
    /\ UNCHANGED <<runVars, clientVars>>

(***************************************************************************)
(* The ledger under concurrent debits, payment events delivered once each, *)
(* and passing time.                                                       *)
(***************************************************************************)
InitLedger ==
    /\ profile = NewProfile
    /\ unlimited = FALSE
    /\ now = 0
    /\ profile0 = profile
    /\ DebitsIdle
    /\ wread = NoReads
    /\ dup = NoEvent
    /\ dupBudget = 0
    /\ deniedSince = Observe({}, profile, now)
    /\ RunsIdle

NextLedger ==
    \/ \E d \in Debiters : ConsumeFirst(d)
    \/ \E d \in Debiters : ConsumeAddon(d)
    \/ \E d \in Debiters : DebitReturn(d)
    \/ \E e \in Events : Deliver(e, FALSE)
    \/ AddonRead
    \/ AddonWrite(FALSE)
    \/ Tick

SpecLedger == InitLedger /\ [][NextLedger]_vars

\* C2: in every reachable state period usage does not exceed the
\* subscription limit and the add-on credit balance is not negative.
C2_QuotaBounds ==
    /\ profile.period_request_count <= SubscriptionLimit
    /\ profile.addon_credits >= 0

\* Both sources are exhausted and a debit has been refused.
C2_Witness ==
    /\ profile.period_request_count = SubscriptionLimit
    /\ profile.addon_credits = 0
    /\ \E d \in Debiters : dres[d] = "false"

(***************************************************************************)
(* Admission / debit consistency.                                          *)
(***************************************************************************)
\* A debit call returns true in this step.
DebitSucceeds == \E d \in Debiters : dres[d] # "true" /\ dres'[d] = "true"

InitReconcile ==
    /\ profile = NewProfile
    /\ unlimited = FALSE
    /\ now = 0
    /\ profile0 = profile
    /\ DebitsIdle
    /\ wread = NoReads
    /\ dup = NoEvent
    /\ dupBudget = MaxDups
    /\ deniedSince = Observe({}, profile, now)
    /\ RunsIdle

NextReconcile ==
    \/ ConsumeFirst(1)
    \/ ConsumeAddon(1)
    \/ DebitReturn(1)
    \/ \E e \in Events : Deliver(e, FALSE)
    \/ \E e \in Events : Deliver(e, TRUE)
    \/ AddonRead
    \/ AddonWrite(FALSE)
    \/ AddonWrite(TRUE)

SpecReconcile == InitReconcile /\ [][NextReconcile]_vars

\* This step completes the handling of a duplicate delivery.
DuplicateHandled == dupBudget' < dupBudget

\* C6: for each event kind, delivering the same event a second time leaves
\* the account as the first delivery left it; a duplicated add-on checkout
\* adds no second credit pack.
C6_DuplicateIsNoOp == [][DuplicateHandled => profile' = profile]_vars

\* C7: a renewal sets period usage to 0, the tier to active and the period
\* end to the new period end, and a second call of the same renewal, with
\* the period end the account already has, changes no field of the account,
\* whatever debits happened since the first call.
C7_RenewalCompareAndSkip ==
    [][\A e \in Events : \A again \in BOOLEAN :
          (e.kind = "invoice_paid" /\ Deliver(e, again)) =>
              IF again /\ profile.current_period_end = e.pe
              THEN profile' = profile
              ELSE /\ profile'.period_request_count = 0
                   /\ profile'.subscription_status = "active"
                   /\ profile'.current_period_end = e.pe]_vars

\* C8: the tier becomes expired only by the subscription-deleted event; no
\* other payment event, a subscription update reporting a failed or
\* retrying payment included, makes the tier expired.
C8_OnlyDeletionExpires ==
    [][(profile.subscription_status # "expired"
        /\ profile'.subscription_status = "expired") =>
          \E e \in Events : \E again \in BOOLEAN :
              e.kind = "sub_deleted" /\ Deliver(e, again)]_vars

(***************************************************************************)
(* start_optimization: admission on the profile read, creation of the run, *)
(* then consumption computed from the same profile read.                   *)
(***************************************************************************)
\* consume_request of the access-control service: the fields to update.
PyConsumeNoAdmin(unl, p) ==
    IF p.subscription_status = "active"
    THEN IF p.period_request_count < SubscriptionLimit
         THEN {<<"period_request_count", p.period_request_count + 1>>}
         ELSE IF p.addon_credits > 0
         THEN {<<"addon_credits", p.addon_credits - 1>>}
         ELSE {}
    ELSE {<<"request_count", p.request_count + 1>>}
PyConsume(unl, p) ==
    IF unl THEN {}
    ELSE IF p.subscription_status = "active"
    THEN IF p.period_request_count < SubscriptionLimit
         THEN {<<"period_request_count", p.period_request_count + 1>>}
         ELSE IF p.addon_credits > 0
         THEN {<<"addon_credits", p.addon_credits - 1>>}
         ELSE {}
    ELSE {<<"request_count", p.request_count + 1>>}

\* supabase.update_profile: the named fields are overwritten.
UpdateProfile(p, updates) ==
    [f \in DOMAIN p |->
        IF \E u \in updates : u[1] = f
        THEN (CHOOSE u \in updates : u[1] = f)[2]
        ELSE p[f]]

\* Every status write of a run is recorded in its history.
SetStatus(r, st) ==
    /\ status' = [status EXCEPT ![r] = st]
    /\ hist' = [hist EXCEPT ![r] = Append(@, st)]

\* if not access.allowed: raise HTTPException(status_code=402, ...)
AdmitsAnyone(a) == TRUE
Admits(a) == a.allowed

\* get_profile and check_access; a denial is answered with HTTP 402.
StartCheck(s) ==
    /\ spc[s] = "idle"
    /\ snap' = [snap EXCEPT ![s] = profile]
    /\ spc' = [spc EXCEPT ![s] =
                  IF Admits(check_access(unlimited, profile, now))
                  THEN "admitted" ELSE "denied"]
    /\ UNCHANGED <<status, iterations, hist, consumed, error, outVars>>
    /\ UNCHANGED <<ledgerVars, clientVars>>

\* supabase.create_optimization_run: status and iterations take the column
\* defaults.
StartCreate(s) ==
    /\ spc[s] = "admitted"
    /\ spc' = [spc EXCEPT ![s] = "created"]
    /\ SetStatus(s, "pending")
    /\ iterations' = [iterations EXCEPT ![s] = 0]
    /\ UNCHANGED <<snap, consumed, error, outVars>>
    /\ UNCHANGED <<ledgerVars, clientVars>>

\* updates = consume_request(email, profile); update_profile if any.  The
\* response is returned and the background task may start.
StartConsume(s) ==
    /\ spc[s] = "created"
    /\ LET updates == PyConsume(unlimited, snap[s])
       IN  /\ profile' = UpdateProfile(profile, updates)
           /\ consumed' = [consumed EXCEPT ![s] =
                              IF updates = {} THEN "noop" ELSE "written"]
    /\ spc' = [spc EXCEPT ![s] = "started"]
    /\ deniedSince' = Observe(deniedSince, profile', now)
    /\ UNCHANGED <<unlimited, now, profile0, dpc, dres, wread, dup, dupBudget>>
    /\ UNCHANGED <<snap, status, iterations, hist, error, outVars>>
    /\ UNCHANGED clientVars

(***************************************************************************)
(* The run state machine, in the status vocabulary of optimization_runs.   *)
(***************************************************************************)
Statuses ==
    {"pending", "parse_job", "generate", "validate", "refine", "complete",
     "failed"}

NonTerminal == {"pending", "parse_job", "generate", "validate", "refine"}

AfterRefineRestart == "parse_job"
AfterRefine == "generate"

Running(r) == spc[r] = "started"

Step(r, from, to) ==
    /\ Running(r)
    /\ status[r] = from
    /\ SetStatus(r, to)
    /\ UNCHANGED <<spc, snap, consumed>>
    /\ UNCHANGED <<ledgerVars, clientVars>>

\* The job-parsing agent is invoked.
OrchParse(r) ==
    Step(r, "pending", "parse_job") /\ UNCHANGED <<iterations, error, outVars>>

\* The parsed snapshot is stored.
OrchParsed(r) ==
    Step(r, "parse_job", "generate") /\ UNCHANGED <<iterations, error, outVars>>

\* The optimization agent has produced a candidate.
OrchGenerated(r) ==
    Step(r, "generate", "validate") /\ UNCHANGED <<iterations, error, outVars>>

\* The iteration record of the validation that has just been made.
IterationNumberFromZero(r) == iterations[r]
IterationNumber(r) == iterations[r] + 1

IterationRecord(r, passed) ==
    [iteration |-> IterationNumber(r), passed |-> passed]

\* The reference of the rendered artifact.
RenderedNothing == "none"
Rendered == "html"

\* All validators pass: the record is appended, the final artifact is
\* rendered and stored with the status.
OrchValidatePass(r) ==
    /\ Step(r, "validate", "complete")
    /\ feedback' = [feedback EXCEPT ![r] = Append(@, IterationRecord(r, TRUE))]
    /\ result_html' = [result_html EXCEPT ![r] = Rendered]
    /\ UNCHANGED <<iterations, error>>

\* iteration < maxIterations, the condition under which a failed validation
\* is followed by a refinement.
IterationsRemainOffByOne(r) == iterations[r] <= MaxIterations
IterationsRemain(r) == iterations[r] < MaxIterations

\* Some validator fails: refine while iterations remain, else give up with
\* reason validation_exhausted.
OrchValidateFail(r) ==
    /\ Step(r, "validate", IF IterationsRemain(r) THEN "refine" ELSE "failed")
    /\ error' = [error EXCEPT ![r] =
                    IF IterationsRemain(r) THEN @ ELSE "validation_exhausted"]
    /\ feedback' = [feedback EXCEPT ![r] = Append(@, IterationRecord(r, FALSE))]
    /\ UNCHANGED <<iterations, result_html>>

\* The loop back into generation; the iteration counter is incremented.
OrchRefine(r) ==
    /\ Step(r, "refine", AfterRefine)
    /\ iterations' = [iterations EXCEPT ![r] = @ + 1]
    /\ UNCHANGED <<error, outVars>>

\* Unparseable job input while parsing, or a timeout in any non-terminal
\* status.
OrchFail(r) ==
    /\ status[r] \in NonTerminal
    /\ Step(r, status[r], "failed")
    /\ \E reason \in {"input_error", "timeout"} :
          /\ reason = "input_error" => status[r] = "parse_job"
          /\ error' = [error EXCEPT ![r] = reason]
    /\ UNCHANGED <<iterations, outVars>>

InitRuns ==
    /\ profile \in Profiles
    /\ Plausible(profile)
    /\ profile.subscription_id = None
    /\ profile.current_period_end \in {None, MaxTime}
    /\ profile.request_count <= TrialLimit
    /\ profile.addon_credits <= 1
    /\ unlimited \in BOOLEAN
    /\ now = 0
    /\ profile0 = profile
    /\ DebitsIdle
    /\ wread = NoReads
    /\ dup = NoEvent
    /\ dupBudget = 0
    /\ deniedSince = Observe({}, profile, now)
    /\ RunsIdle

NextRuns ==
    \/ \E s \in Starters : StartCheck(s)
    \/ \E s \in Starters : StartCreate(s)
    \/ \E s \in Starters : StartConsume(s)
    \/ \E r \in Starters : OrchParse(r)
    \/ \E r \in Starters : OrchParsed(r)
    \/ \E r \in Starters : OrchGenerated(r)
    \/ \E r \in Starters : OrchValidatePass(r)
    \/ \E r \in Starters : OrchValidateFail(r)
    \/ \E r \in Starters : OrchRefine(r)
    \/ \E r \in Starters : OrchFail(r)

SpecRuns == InitRuns /\ [][NextRuns]_vars

\* C4: the debit of a run is issued exactly once, and only once the run has
\* reached complete, never while it is pending or in another non-terminal
\* status.
C4_DebitOnlyAtComplete ==
    \A r \in Starters :
        /\ consumed[r] # "none" => status[r] = "complete"
        /\ status[r] = "complete" => consumed[r] # "none"

\* C5: for a run that has ended in failed no account counter was written on
\* its behalf.
C5_FailedNeverDebits ==
    \A r \in Starters : status[r] = "failed" => consumed[r] # "written"

\* C9: of two simultaneous starts on an account with exactly 1 request
\* left, at most one gets a run; the other is blocked.
C9_LastUnitServesOneStart ==
    (/\ ~unlimited
     /\ check_access(unlimited, profile0, now).allowed
     /\ check_access(unlimited, profile0, now).remaining = 1)
    => Cardinality({s \in Starters : status[s] # "none"}) <= 1

\* The status graph of a run.
Edges ==
    {<<"pending", "parse_job">>, <<"parse_job", "generate">>,
     <<"generate", "validate">>, <<"validate", "refine">>,
     <<"validate", "complete">>, <<"refine", "generate">>,
     <<"pending", "failed">>, <<"parse_job", "failed">>,
     <<"generate", "failed">>, <<"validate", "failed">>,
     <<"refine", "failed">>}

\* C10: the statuses persisted for a run start with pending and form a walk
\* of the status graph, whose only backward edge is refine to generate;
\* complete and failed occur at most once, as the last status.
C10_ValidWalk ==
    \A r \in Starters :
        LET h == hist[r]
        IN  /\ \A i \in 1..Len(h) : h[i] \in Statuses
            /\ h # <<>> => h[1] = "pending"
            /\ \A i \in 1..(Len(h) - 1) : <<h[i], h[i + 1]>> \in Edges
            /\ \A i \in 1..Len(h) :
                   h[i] \in {"complete", "failed"} => i = Len(h)
            /\ h # <<>> => status[r] = h[Len(h)]

\* A run completed after one refine loop while the other run failed.
C10_Witness ==
    /\ hist[1] = <<"pending", "parse_job", "generate", "validate", "refine",
                   "generate", "validate", "complete">>
    /\ status[2] = "failed"

(***************************************************************************)
(* The iteration bound of a run.                                           *)
(***************************************************************************)
\* Refinements the run has entered, and validations it has undergone.
RefineAttempts(r) ==
    Cardinality({i \in 1..Len(hist[r]) : hist[r][i] = "refine"})

Validations(r) ==
    Cardinality({i \in 1..Len(hist[r]) : hist[r][i] = "validate"})

\* C11: the iteration counter and the number of refine attempts never
\* exceed maxIterations; a run that failed with reason validation_exhausted
\* did so after exactly maxIterations refine attempts, and after the
\* validation that follows the last of them a run is complete or failed.
C11_IterationBound ==
    \A r \in Starters :
        /\ iterations[r] <= MaxIterations
        /\ RefineAttempts(r) <= MaxIterations
        /\ error[r] = "validation_exhausted" =>
              /\ status[r] = "failed"
              /\ RefineAttempts(r) = MaxIterations
              /\ iterations[r] = MaxIterations
        /\ (Validations(r) = MaxIterations + 1 /\ status[r] # "validate") =>
              status[r] \in {"complete", "failed"}

\* A run has failed every validation and is given up.
C11_Witness ==
    \E r \in Starters :
        /\ error[r] = "validation_exhausted"
        /\ RefineAttempts(r) = MaxIterations
        /\ Validations(r) = MaxIterations + 1

(***************************************************************************)
(* GET /subscription: check_access applied to the profile read, and the    *)
(* optimize page's use of the response.                                    *)
(***************************************************************************)
GetStatus ==
    /\ access' = check_access(unlimited, profile, now)
    /\ UNCHANGED <<ledgerVars, runVars, resp, uiVars>>

\* The optimize page: the reason it redirects to /blocked with, or "none"
\* when it stays.
BlockedRedirect(a) ==
    IF a.remaining # None /\ a.remaining <= 0 /\ ~a.unlimited
    THEN IF a.can_buy_addon THEN "quota_exhausted" ELSE "trial_exhausted"
    ELSE "none"

\* Every row of the profiles table, every clock value, either kind of user.
InitAccess ==
    /\ profile \in Profiles
    /\ profile.subscription_id = None
    /\ unlimited \in BOOLEAN
    /\ now \in 0..MaxTime
    /\ profile0 = profile
    /\ DebitsIdle
    /\ wread = NoReads
    /\ dup = NoEvent
    /\ dupBudget = 0
    /\ deniedSince = Observe({}, profile, now)
    /\ RunsIdle

NextAccess == GetStatus

SpecAccess == InitAccess /\ [][NextAccess]_vars

\* The four rules of the admission check, first match wins.
PeriodValid(p, t) ==
    /\ p.subscription_status = "active"
    /\ p.current_period_end # None
    /\ t < p.current_period_end

Quota(p) == (SubscriptionLimit - p.period_request_count) + p.addon_credits

\* C12: the result of check_access is the one of the four rules read in
\* order: unlimited allows; else an active account inside its period is
\* decided by its quota alone (allowed with the quota as remaining, or
\* denied quota_exhausted, whatever its trial usage); else trial usage
\* below the limit allows with remaining = limit - usage; else denied
\* trial_exhausted.
C12_FirstMatchWins ==
    access # NoAccess =>
        IF unlimited
        THEN access.allowed /\ access.reason = "none"
        ELSE IF PeriodValid(profile, now)
        THEN IF Quota(profile) > 0
             THEN /\ access.allowed
                  /\ access.reason = "none"
                  /\ access.remaining = Quota(profile)
             ELSE ~access.allowed /\ access.reason = "quota_exhausted"
        ELSE IF profile.request_count < TrialLimit
        THEN /\ access.allowed
             /\ access.reason = "none"
             /\ access.remaining = TrialLimit - profile.request_count
        ELSE ~access.allowed /\ access.reason = "trial_exhausted"

\* An active account inside its period with no quota left and trial usage
\* below the trial limit has been denied.
C12_Witness ==
    /\ ~unlimited
    /\ PeriodValid(profile, now)
    /\ Quota(profile) <= 0
    /\ profile.request_count < TrialLimit
    /\ access.reason = "quota_exhausted"

\* C13: a denial is trial_exhausted with can_subscribe, or quota_exhausted
\* with can_buy_addon and the period end as renewal date; an allowed result
\* has no reason and remaining > 0 or is unlimited; an account that is not
\* active with trial usage at or above the limit is denied trial_exhausted
\* with can_subscribe; the optimize page redirects to /blocked exactly on a
\* denial, with the reason of the denial.
C13_DenialCarriesHint ==
    access # NoAccess =>
        /\ ~access.allowed =>
              \/ access.reason = "trial_exhausted" /\ access.can_subscribe
              \/ /\ access.reason = "quota_exhausted"
                 /\ access.can_buy_addon
                 /\ access.renewal_date = profile.current_period_end
                 /\ access.renewal_date # None
        /\ access.allowed =>
              /\ access.reason = "none"
              /\ access.unlimited \/ access.remaining > 0
        /\ (/\ ~unlimited
            /\ profile.subscription_status # "active"
            /\ profile.request_count >= TrialLimit) =>
              /\ ~access.allowed
              /\ access.reason = "trial_exhausted"
              /\ access.can_subscribe
        /\ BlockedRedirect(access) = access.reason

\* A non-active account with its trial used up has been denied.
C13_Witness ==
    /\ ~unlimited
    /\ profile.subscription_status # "active"
    /\ profile.request_count >= TrialLimit
    /\ access = TrialExhausted

(***************************************************************************)
(* The debit as a function of the row it finds.                            *)
(***************************************************************************)
\* Debit call d returns in this step.
DebitCompletes(d) == dpc[d] # "done" /\ dpc'[d] = "done"

\* C14: a debit of an active account that finds period usage below the
\* limit adds 1 to it and leaves the add-on credits; one that finds the
\* limit reached and add-on credits left takes 1 credit and leaves period
\* usage; one that finds neither returns false and changes nothing; false
\* is returned in that case only.  The update is the one consume_request of
\* the access-control service computes for the same row.
C14_ActiveDebitOrder ==
    [][\A d \in Debiters :
          (DebitCompletes(d) /\ ~unlimited /\ IsSubscriber(profile)) =>
              /\ IF profile.period_request_count < SubscriptionLimit
                 THEN /\ profile' = [profile EXCEPT
                                        !.period_request_count = @ + 1]
                      /\ dres'[d] = "true"
                 ELSE IF profile.addon_credits > 0
                 THEN /\ profile' = [profile EXCEPT !.addon_credits = @ - 1]
                      /\ dres'[d] = "true"
                 ELSE /\ profile' = profile
                      /\ dres'[d] = "false"
              /\ profile' = UpdateProfile(profile, PyConsume(FALSE, profile))
      ]_vars

\* A debit has taken an add-on credit and left period usage at the limit.
C14_Witness ==
    /\ ~unlimited
    /\ profile0.subscription_status = "active"
    /\ profile0.period_request_count = SubscriptionLimit
    /\ profile.period_request_count = SubscriptionLimit
    /\ profile.addon_credits = profile0.addon_credits - 1
    /\ dres[1] = "true"
    /\ dpc[2] = "idle"

\* C16: a debit of an account that is not active adds exactly 1 to the
\* lifetime counter and returns true whatever the counter is, leaving period
\* usage and add-on credits as they are.
C16_TrialDebitUnconditional ==
    [][\A d \in Debiters :
          (DebitCompletes(d) /\ ~unlimited /\ ~IsSubscriber(profile)) =>
              /\ profile' = [profile EXCEPT !.request_count = @ + 1]
              /\ dres'[d] = "true"
      ]_vars

\* Two debits admitted below the trial limit have taken the counter past it.
C16_Witness ==
    /\ ~unlimited
    /\ profile0.subscription_status = "trial"
    /\ profile0.request_count < TrialLimit
    /\ profile.request_count > TrialLimit
    /\ \A d \in Debiters : dres[d] = "true"

(***************************************************************************)
(* The administrative override.                                            *)
(***************************************************************************)
\* C15: for a user in unlimited_users no start request is denied, whatever
\* the row holds; consume_request yields no update for it, the request
\* goes on to start its run, and no step changes a counter of the row.
C15_UnlimitedNoOp ==
    [][unlimited =>
          /\ \A s \in Starters :
                /\ spc'[s] # "denied"
                /\ consumed'[s] \in {"none", "noop"}
                /\ (spc[s] = "created" /\ spc'[s] # "created") =>
                       spc'[s] = "started"
          /\ profile' = profile
          /\ profile' = profile0
      ]_vars

\* An unlimited user whose trial is used up, or whose subscription quota
\* is used up, has started a run without an update of the row.
C15_Witness ==
    /\ unlimited
    /\ \/ profile.request_count >= TrialLimit /\ ~IsSubscriber(profile)
       \/ IsSubscriber(profile) /\ SubscriberQuota(profile) = 0
    /\ \A s \in Starters : spc[s] = "started" /\ consumed[s] = "noop"
    /\ profile = profile0

(***************************************************************************)
(* The add-on credit balance under concurrent purchases and debits.        *)
(***************************************************************************)
\* The webhook completes an add-on purchase in this step.
PurchaseCompletes ==
    \E h \in Hooks : wread[h] # None /\ wread'[h] = None

\* A debit call takes an add-on credit in this step.
AddonDebited == \E d \in Debiters : dpc[d] = "addon" /\ dres'[d] = "true"

\* C17: every completed add-on purchase raises addon_credits by the pack
\* over the balance it finds, every successful add-on debit lowers it by
\* 1, and no other step changes it, so that after k purchases and d
\* add-on debits the balance is the initial one + k * pack - d.
C17_CreditsNeverLost ==
    [][profile'.addon_credits =
          profile.addon_credits
          + (IF PurchaseCompletes THEN AddonPack ELSE 0)
          - (IF AddonDebited THEN 1 ELSE 0)
      ]_vars

(***************************************************************************)
(* The webhook request: signature check, then the event, with the ways     *)
(* the handling of an event can fail.                                      *)
(***************************************************************************)
\* The Stripe-Signature header of a request.
Signatures == {"missing", "invalid", "valid"}

\* construct_webhook_event: stripe.Webhook.construct_event raises on a
\* signature that does not match the payload.
SignatureVerifiesAny(sig) == TRUE
SignatureVerifies(sig) == sig = "valid"

\* HTTPException(status_code=400) before anything is read or written.
RejectRequest ==
    /\ resp' = Response(400, "none")
    /\ UNCHANGED <<ledgerVars, runVars, access, uiVars>>

\* A request arrives: the header is required, the signature is verified,
\* and only then the event is handled (for an add-on checkout, up to the
\* read of the profile).
HandleRequest(sig, e) ==
    IF sig = "missing" \/ ~SignatureVerifies(sig)
    THEN RejectRequest
    ELSE \/ Deliver(e, FALSE)
         \/ e = AddonEvent /\ AddonRead

\* stripe_service.get_subscription raises: the error is not caught by the
\* handler, nothing has been written.
StripeFails(e) ==
    /\ e.kind \in {"sub_checkout", "invoice_paid"}
    /\ resp' = Response(500, "none")
    /\ UNCHANGED <<ledgerVars, runVars, access, uiVars>>

\* update_profile raises SupabaseError: the handler logs it and returns
\* {"status": "error"} as a normal response.  For an add-on checkout the
\* failing update is the one that follows the read of the profile.
StorageFails(e) ==
    /\ IF e.kind = "addon_checkout"
       THEN wread[1] # None /\ wread' = [wread EXCEPT ![1] = None]
       ELSE UNCHANGED wread
    /\ resp' = Response(200, "error")
    /\ UNCHANGED <<profile, unlimited, now, profile0, dpc, dres, dup,
                   dupBudget, deniedSince>>
    /\ UNCHANGED <<runVars, access, uiVars>>

\* An event without user_id in its metadata: a checkout returns
\* {"status": "error"}, the other kinds skip the update and return ok.
MalformedEvent(e) ==
    /\ resp' = Response(200, IF e.kind \in {"sub_checkout", "addon_checkout"}
                             THEN "error" ELSE "ok")
    /\ UNCHANGED <<ledgerVars, runVars, access, uiVars>>

NextWebhook ==
    \/ \E sig \in Signatures : \E e \in Events : HandleRequest(sig, e)
    \/ AddonWrite(FALSE)
    \/ \E e \in Events : StripeFails(e)
    \/ \E e \in Events : StorageFails(e)
    \/ \E e \in Events : MalformedEvent(e)

SpecWebhook == InitLedger /\ [][NextWebhook]_vars

\* The handling of an event fails in this step.
ReconciliationFails ==
    \E e \in Events : StripeFails(e) \/ StorageFails(e) \/ MalformedEvent(e)

\* C18: when the handling of a payment event fails, the response is not a
\* 2xx one and the row is left as it was.
C18_FailureSignalled ==
    [][ReconciliationFails =>
          /\ resp'.code \notin 200..299
          /\ profile' = profile
      ]_vars

\* C19: a request whose signature header is missing or does not verify is
\* answered with HTTP 400 and neither reads nor writes the row: the row
\* and the handler's profile read stay as they were.
C19_SignatureFirst ==
    [][\A sig \in {"missing", "invalid"} : \A e \in Events :
          HandleRequest(sig, e) =>
              /\ resp'.code = 400
              /\ profile' = profile
              /\ wread' = wread
      ]_vars

\* A request has been rejected while the account holds a subscription and
\* credits that a forged event could have overwritten.
C19_Witness ==
    /\ resp = Response(400, "none")
    /\ profile.subscription_status = "active"
    /\ profile.addon_credits > 0

(***************************************************************************)
(* Add-on purchases handled concurrently: two webhook requests may be in   *)
(* the add-on branch at once, next to the other payment events and a       *)
(* debit caller.                                                           *)
(***************************************************************************)
NextPurchases ==
    \/ \E h \in Hooks : AddonReadBy(h)
    \/ \E h \in Hooks : AddonWriteBy(h, FALSE)
    \/ \E e \in Events : Deliver(e, FALSE)
    \/ ConsumeFirst(1)
    \/ ConsumeAddon(1)
    \/ DebitReturn(1)

SpecPurchases == InitLedger /\ [][NextPurchases]_vars

\* C20: renewal, activation, status update and cancellation events leave
\* addon_credits as it is, and addon_credits goes down only by 1 and only
\* in the add-on step of a debit, which is reached when the period quota
\* was found exhausted.
C20_CreditsNeverExpire ==
    [][/\ (\E e \in Events : Deliver(e, FALSE)) =>
             profile'.addon_credits = profile.addon_credits
       /\ profile'.addon_credits < profile.addon_credits =>
             /\ AddonDebited
             /\ profile'.addon_credits = profile.addon_credits - 1
      ]_vars

(***************************************************************************)
(* The period end of an active account.                                    *)
(***************************************************************************)
\* C21: whatever payment events have been handled, in whatever order, an
\* account whose subscription_status is active has a current_period_end.
C21_ActiveHasPeriodEnd ==
    profile.subscription_status = "active" =>
        profile.current_period_end # None

\* The account became active through an event and stayed so although a
\* later request failed.
C21_Witness ==
    /\ profile.subscription_status = "active"
    /\ profile.subscription_id = None
    /\ profile.current_period_end # None
    /\ resp.status = "error"

(***************************************************************************)
(* Start requests that follow one another: a client whose request has      *)
(* been answered sends the next one while another request is in flight.    *)
(***************************************************************************)
\* The request of s has been answered; s sends a new request, and the
\* model follows the run of the new request.
StartAgain(s) ==
    /\ spc[s] \in {"started", "denied"}
    /\ spc' = [spc EXCEPT ![s] = "idle"]
    /\ snap' = [snap EXCEPT ![s] = NewProfile]
    /\ status' = [status EXCEPT ![s] = "none"]
    /\ iterations' = [iterations EXCEPT ![s] = 0]
    /\ hist' = [hist EXCEPT ![s] = <<>>]
    /\ consumed' = [consumed EXCEPT ![s] = "none"]
    /\ error' = [error EXCEPT ![s] = "none"]
    /\ result_html' = [result_html EXCEPT ![s] = "none"]
    /\ feedback' = [feedback EXCEPT ![s] = <<>>]
    /\ UNCHANGED <<ledgerVars, clientVars>>

NextStarts ==
    \/ \E s \in Starters : StartCheck(s)
    \/ \E s \in Starters : StartCreate(s)
    \/ \E s \in Starters : StartConsume(s)
    \/ \E s \in Starters : StartAgain(s)

SpecStarts == InitRuns /\ [][NextStarts]_vars

\* This step handles a subscription checkout or a paid invoice.
RenewalHandled ==
    \E e \in Events : \E again \in BOOLEAN :
        e.kind \in {"sub_checkout", "invoice_paid"} /\ Deliver(e, again)

\* C22: request_count never goes down, and period_request_count goes down
\* only in a step that handles a renewal and sets it to 0.
C22_CountersMonotone ==
    [][/\ profile'.request_count >= profile.request_count
       /\ profile'.period_request_count < profile.period_request_count =>
             RenewalHandled /\ profile'.period_request_count = 0
      ]_vars

(***************************************************************************)
(* The fields of a finished run and its feedback log.                      *)
(***************************************************************************)
\* C23: a complete run has an output reference and a failed run has an
\* error detail.
C23_TerminalFields ==
    \A r \in Starters :
        /\ status[r] = "complete" => result_html[r] # "none"
        /\ status[r] = "failed" => error[r] # "none"

\* One run is complete with its output while the other has failed with its
\* error.
C23_Witness ==
    /\ status[1] = "complete" /\ result_html[1] = Rendered
    /\ status[2] = "failed" /\ error[2] = "timeout"

\* Validations of the run that have returned their verdict.
CompletedValidations(r) ==
    Cardinality({i \in 1..(Len(hist[r]) - 1) :
                   /\ hist[r][i] = "validate"
                   /\ \/ hist[r][i + 1] \in {"refine", "complete"}
                      \/ /\ hist[r][i + 1] = "failed"
                         /\ error[r] = "validation_exhausted"})

\* C25: the feedback log has one entry per completed validation, numbered
\* 1..k in order; only the last entry can have passed, and it has passed
\* exactly when the run is complete; a step leaves the log as it is or
\* appends one entry to it.
C25_FeedbackAppendOnly ==
    /\ [](\A r \in Starters :
            /\ Len(feedback[r]) = CompletedValidations(r)
            /\ \A i \in 1..Len(feedback[r]) :
                  /\ feedback[r][i].iteration = i
                  /\ feedback[r][i].passed =
                        (i = Len(feedback[r]) /\ status[r] = "complete")
            /\ status[r] = "complete" => Len(feedback[r]) = Validations(r))
    /\ [][\A r \in Starters :
            \/ feedback'[r] = feedback[r]
            \/ /\ Len(feedback'[r]) = Len(feedback[r]) + 1
               /\ SubSeq(feedback'[r], 1, Len(feedback[r])) = feedback[r]
         ]_vars

\* A run that failed its first validation and passed its second is
\* complete with two entries.
C25_Witness ==
    \E r \in Starters :
        /\ status[r] = "complete"
        /\ feedback[r] = <<[iteration |-> 1, passed |-> FALSE],
                           [iteration |-> 2, passed |-> TRUE]>>

(***************************************************************************)
(* Termination of runs.  The orchestrator's own steps (leaving pending,    *)
(* leaving refine) are taken under fair scheduling of the background task. *)
(* An external call (job parsing, generation, validation with rendering)   *)
(* may never return; its timeout then fires.  Nothing is assumed about     *)
(* calls returning.                                                        *)
(***************************************************************************)
\* Statuses in which an external call with a timeout is outstanding.
TimedCallsAgentsOnly == {"parse_job", "generate"}
TimedCalls == {"parse_job", "generate", "validate"}

\* The timeout of the outstanding call fires.
OrchTimeout(r) ==
    /\ status[r] \in TimedCalls
    /\ OrchFail(r)
    /\ error'[r] = "timeout"

FairRuns ==
    \A r \in Starters :
        /\ WF_vars(OrchParse(r))
        /\ WF_vars(OrchRefine(r))
        /\ WF_vars(OrchTimeout(r))

\* The accounts whose runs are followed to their end: the two tiers the
\* admission check tells apart, not on the unlimited list.
InitRunsFair ==
    /\ InitRuns
    /\ ~unlimited
    /\ profile.subscription_status \in {"trial", "active"}

SpecRunsFair == InitRunsFair /\ [][NextRuns]_vars /\ FairRuns

\* C24: every run whose background task has been started eventually
\* reaches complete or failed.
C24_RunsTerminate ==
    \A r \in Starters :
        (spc[r] = "started") ~> (status[r] \in {"complete", "failed"})

\* A run has been failed by the timeout of its validation after a
\* refinement.
C24_Witness ==
    \E r \in Starters :
        /\ status[r] = "failed"
        /\ error[r] = "timeout"
        /\ iterations[r] > 0
        /\ hist[r][Len(hist[r]) - 1] = "validate"

(***************************************************************************)
(* Admission, creation of the run and start of its background task.        *)
(***************************************************************************)
\* C26: a denied start request has no run; a run exists only for a request
\* whose profile read was admitted; the run of a request that has not yet
\* been answered is pending and nothing else has been written for it, so
\* every later status belongs to a request that has been answered.
C26_AdmissionBeforeRun ==
    \A s \in Starters :
        /\ spc[s] \in {"idle", "admitted", "denied"} =>
              status[s] = "none" /\ hist[s] = <<>>
        /\ spc[s] = "denied" =>
              ~check_access(unlimited, snap[s], now).allowed
        /\ status[s] # "none" =>
              check_access(unlimited, snap[s], now).allowed
        /\ spc[s] = "created" =>
              status[s] = "pending" /\ hist[s] = <<"pending">>
        /\ Len(hist[s]) > 1 => spc[s] = "started"

\* One request has been denied without a run while the run of the other,
\* admitted before, is being parsed.
C26_Witness ==
    /\ spc[1] = "denied"
    /\ status[1] = "none"
    /\ spc[2] = "started"
    /\ status[2] = "parse_job"

(***************************************************************************)
(* The debit against the source that admitted the request.                 *)
(***************************************************************************)
\* C27: when a debit of an account that check_access admits with remaining
\* r returns true, check_access of the row it leaves reports remaining
\* r - 1.
C27_DebitMatchesAdmission ==
    [][\A d \in Debiters :
          (/\ DebitCompletes(d)
           /\ dres'[d] = "true"
           /\ ~unlimited
           /\ check_access(FALSE, profile, now).allowed) =>
              check_access(FALSE, profile', now).remaining =
                  check_access(FALSE, profile, now).remaining - 1
      ]_vars

(***************************************************************************)
(* useOptimizationStatus: the results page polls the status of the run of  *)
(* request 1.  Each call of fetchStatus is a request of its own; the       *)
(* requests are served and their responses arrive in any order.            *)
(***************************************************************************)
Terminal == {"complete", "failed"}

\* The effect on a non-null runId: the first fetchStatus call and
\* setInterval(fetchStatus, POLL_INTERVAL).
PollMount ==
    /\ Running(1)
    /\ hook = "idle"
    /\ hook' = "mounted"
    /\ \E q \in Requests :
          /\ requests[q] = "none"
          /\ requests' = [requests EXCEPT ![q] = "sent"]
    /\ intervalRef' = TRUE
    /\ UNCHANGED <<hookStatus, hookError>>
    /\ UNCHANGED <<ledgerVars, runVars, access, resp, pageVars>>

\* The interval fires: one more fetchStatus call, whatever is in flight.
PollInterval ==
    /\ hook = "mounted"
    /\ intervalRef
    /\ \E q \in Requests :
          /\ requests[q] = "none"
          /\ requests' = [requests EXCEPT ![q] = "sent"]
    /\ UNCHANGED <<hook, hookStatus, hookError, intervalRef>>
    /\ UNCHANGED <<ledgerVars, runVars, access, resp, pageVars>>

\* GET /optimize/{runId} is served from the run's row, or the request
\* fails.
PollServe(q) ==
    /\ requests[q] = "sent"
    /\ \E answer \in {status[1], "fail"} :
          requests' = [requests EXCEPT ![q] = answer]
    /\ UNCHANGED <<hook, hookStatus, hookError, intervalRef>>
    /\ UNCHANGED <<ledgerVars, runVars, access, resp, pageVars>>

\* stopPolling as fetchStatus calls it for the data it received.
StopsOn(data) == data \in Terminal

\* The await of fetchStatus returns data: setStatus(data), setError(null),
\* and stopPolling on a terminal status.  A hook that has been unmounted
\* keeps no state.
PollResolve(q) ==
    /\ requests[q] \in Statuses
    /\ requests' = [requests EXCEPT ![q] = "none"]
    /\ IF hook = "mounted"
       THEN /\ hookStatus' = requests[q]
            /\ hookError' = FALSE
            /\ intervalRef' = IF StopsOn(requests[q]) THEN FALSE ELSE intervalRef
       ELSE UNCHANGED <<hookStatus, hookError, intervalRef>>
    /\ UNCHANGED hook
    /\ UNCHANGED <<ledgerVars, runVars, access, resp, pageVars>>

\* The await of fetchStatus throws: setError(e) and stopPolling.
PollReject(q) ==
    /\ requests[q] = "fail"
    /\ requests' = [requests EXCEPT ![q] = "none"]
    /\ IF hook = "mounted"
       THEN hookError' = TRUE /\ intervalRef' = FALSE
       ELSE UNCHANGED <<hookError, intervalRef>>
    /\ UNCHANGED <<hook, hookStatus>>
    /\ UNCHANGED <<ledgerVars, runVars, access, resp, pageVars>>

\* The cleanup of the effect: stopPolling; the state of the hook is gone.
PollUnmount ==
    /\ hook = "mounted"
    /\ hook' = "unmounted"
    /\ intervalRef' = FALSE
    /\ hookStatus' = "null"
    /\ hookError' = FALSE
    /\ UNCHANGED requests
    /\ UNCHANGED <<ledgerVars, runVars, access, resp, pageVars>>

\* A new account starts one run and its results page polls it.
InitPoll ==
    /\ InitRuns
    /\ profile = NewProfile
    /\ ~unlimited

NextPoll ==
    \/ StartCheck(1)
    \/ StartCreate(1)
    \/ StartConsume(1)
    \/ OrchParse(1)
    \/ OrchParsed(1)
    \/ OrchGenerated(1)
    \/ OrchValidatePass(1)
    \/ OrchValidateFail(1)
    \/ OrchRefine(1)
    \/ OrchFail(1)
    \/ PollMount
    \/ PollInterval
    \/ \E q \in Requests : PollServe(q)
    \/ \E q \in Requests : PollResolve(q)
    \/ \E q \in Requests : PollReject(q)
    \/ PollUnmount

SpecPoll == InitPoll /\ [][NextPoll]_vars

\* While the interval is set no terminal status and no error is stored.
PollingStopped == intervalRef => hookStatus \notin Terminal /\ ~hookError

\* C28: the status stored by the polling hook never regresses, and the
\* interval is not running after a terminal status or a fetch error: a hook
\* that has stored complete or failed stores no non-terminal status
\* afterwards, and while the interval is set the stored status is not
\* terminal and no error is stored.
C28_StatusNeverRegresses ==
    /\ []PollingStopped
    /\ [][(hook' = "mounted" /\ hookStatus \in Terminal)
              => hookStatus' \in Terminal]_vars

(***************************************************************************)
(* The optimize page and the blocked page: the redirects between them and  *)
(* the grace period of the optimize page after a return from checkout.     *)
(* Times are in units of 30 s.                                             *)
(***************************************************************************)
CHECKOUT_GRACE_MS == 2
MaxClock == 4
MaxRedirects == 3

\* Date.now() - parseInt(ts) < CHECKOUT_GRACE_MS, false without a timestamp.
isWithinCheckoutGrace ==
    checkoutTs # None /\ clock - checkoutTs < CHECKOUT_GRACE_MS

\* The blocked page: it goes back to /optimize.
BackToOptimizeAtZero(a) == a.remaining = None \/ a.remaining >= 0 \/ a.unlimited
BackToOptimize(a) == a.remaining = None \/ a.remaining > 0 \/ a.unlimited

\* The optimize page: the subscription is confirmed usable.
QuotaConfirmed(a) == a.remaining = None \/ a.remaining > 0 \/ a.unlimited

\* useSubscription has data.
Loaded == access # NoAccess

\* The browser opens one of the pages; "optimize?success" is the return
\* from the payment processor's checkout.
Navigate(to) ==
    /\ route = "none"
    /\ route' = to
    /\ UNCHANGED <<mounted, postCheckout, successMessage, checkoutTs>>
    /\ UNCHANGED <<graceTimer, clock, redirects>>
    /\ UNCHANGED <<ledgerVars, runVars, access, resp, pollVars>>

\* OptimizeContent mounts: the initial postCheckout state, the removal of
\* the success parameter from the URL and the grace timeout.
OptimizeMount ==
    /\ route \in {"optimize?success", "optimize"}
    /\ ~mounted
    /\ mounted' = TRUE
    /\ LET hasSuccessParam == route = "optimize?success"
       IN  /\ checkoutTs' = IF hasSuccessParam THEN clock ELSE checkoutTs
           /\ postCheckout' = (hasSuccessParam \/ isWithinCheckoutGrace)
           /\ successMessage' = hasSuccessParam
    /\ graceTimer' = IF postCheckout' THEN clock + CHECKOUT_GRACE_MS ELSE None
    /\ route' = "optimize"
    /\ UNCHANGED <<clock, redirects>>
    /\ UNCHANGED <<ledgerVars, runVars, access, resp, pollVars>>

\* OptimizeContent unmounts to be mounted again: its state is gone and the
\* cleanup clears the timeout; sessionStorage is kept.
OptimizeUnmount ==
    /\ route = "optimize"
    /\ mounted
    /\ mounted' = FALSE
    /\ postCheckout' = FALSE
    /\ successMessage' = FALSE
    /\ graceTimer' = None
    /\ UNCHANGED <<route, checkoutTs, clock, redirects>>
    /\ UNCHANGED <<ledgerVars, runVars, access, resp, pollVars>>

\* clearPostCheckout; the effect that set the timeout is cleaned up.
clearPostCheckout ==
    /\ checkoutTs' = None
    /\ postCheckout' = FALSE
    /\ graceTimer' = None

\* The effect that clears the flag once the subscription is usable.
ConfirmEnabled == mounted /\ postCheckout /\ Loaded /\ QuotaConfirmed(access)

ConfirmQuota ==
    /\ ConfirmEnabled
    /\ clearPostCheckout
    /\ UNCHANGED <<route, mounted, successMessage, clock, redirects>>
    /\ UNCHANGED <<ledgerVars, runVars, access, resp, pollVars>>

\* The timeout set for CHECKOUT_GRACE_MS fires.
GraceTimeout ==
    /\ mounted
    /\ graceTimer # None
    /\ clock >= graceTimer
    /\ clearPostCheckout
    /\ UNCHANGED <<route, mounted, successMessage, clock, redirects>>
    /\ UNCHANGED <<ledgerVars, runVars, access, resp, pollVars>>

\* The effect of the optimize page that redirects an account without quota.
BlockedEnabled ==
    mounted /\ ~postCheckout /\ Loaded /\ BlockedRedirect(access) # "none"

RedirectBlocked ==
    /\ BlockedEnabled
    /\ redirects < MaxRedirects
    /\ route' = "blocked"
    /\ mounted' = FALSE
    /\ successMessage' = FALSE
    /\ redirects' = redirects + 1
    /\ UNCHANGED <<postCheckout, checkoutTs, graceTimer, clock>>
    /\ UNCHANGED <<ledgerVars, runVars, access, resp, pollVars>>

\* The effect of the blocked page that sends a usable account back.
RedirectOptimize ==
    /\ route = "blocked"
    /\ Loaded
    /\ BackToOptimize(access)
    /\ redirects < MaxRedirects
    /\ route' = "optimize"
    /\ redirects' = redirects + 1
    /\ UNCHANGED <<mounted, postCheckout, successMessage, checkoutTs>>
    /\ UNCHANGED <<graceTimer, clock>>
    /\ UNCHANGED <<ledgerVars, runVars, access, resp, pollVars>>

\* Time passes in the browser.  Effects run with the render that enables
\* them and a timeout fires when it is due, before more time passes.
PageTick ==
    /\ clock < MaxClock
    /\ graceTimer # None => clock < graceTimer
    /\ ~ConfirmEnabled
    /\ ~BlockedEnabled
    /\ clock' = clock + 1
    /\ UNCHANGED <<route, mounted, postCheckout, successMessage, checkoutTs>>
    /\ UNCHANGED <<graceTimer, redirects>>
    /\ UNCHANGED <<ledgerVars, runVars, access, resp, pollVars>>

NextPages ==
    \/ \E to \in {"optimize?success", "optimize", "blocked"} : Navigate(to)
    \/ GetStatus
    \/ OptimizeMount
    \/ OptimizeUnmount
    \/ ConfirmQuota
    \/ GraceTimeout
    \/ RedirectBlocked
    \/ RedirectOptimize
    \/ PageTick

SpecPages == InitRuns /\ [][NextPages]_vars

\* C29: the two pages never redirect to each other in a loop: for every
\* subscription status received exactly one of the two redirect conditions
\* holds, and with the subscription data unchanged at most one redirect is
\* made.
C29_NoRedirectLoop ==
    /\ Loaded => ((BlockedRedirect(access) # "none") # BackToOptimize(access))
    /\ redirects <= 1

\* An account without quota has been redirected to the blocked page and
\* stays there.
C29_Witness ==
    /\ redirects = 1
    /\ route = "blocked"
    /\ Loaded
    /\ access.remaining = 0
    /\ ~BackToOptimize(access)

\* C30: while postCheckout is set no redirect to /blocked is made; the flag
\* does not stay set once the subscription shows usable quota and time
\* passes, nor later than CHECKOUT_GRACE_MS after the stored checkout
\* timestamp, re-mounts included.
C30_GraceBounded ==
    /\ [](postCheckout =>
              checkoutTs # None /\ clock - checkoutTs <= CHECKOUT_GRACE_MS)
    /\ [][(route' = "blocked" /\ route # "blocked") => ~postCheckout]_vars
    /\ [][clock' # clock => ~ConfirmEnabled]_vars

====
